---- MODULE Spec2Model ----
(***************************************************************************)
(* Indie Boxer: the update logic of the game (app.js) and its frame loop   *)
(* (the Engine of indieboxer.js).                                          *)
(*                                                                         *)
(* Positions are fractional columns/rows in the program.  Here a position  *)
(* is an integer number of units, U units to a cell, and the time delta of *)
(* a frame is an integer number of 1/U seconds, so that dt * speed is a    *)
(* whole number of units.  Target cells, lane slots and random draws are   *)
(* whole cells, as in the program.                                         *)
(***************************************************************************)
EXTENDS Integers, Sequences, FiniteSets, TLC

\* ---------------------------------------------------------------- bounds
Half == 3
MaxFrames == 2
LiveFrames == 4

U == 2 * Half
\* frame time deltas: 1/U second, and half a second (a slow frame)
DtSet == {1, Half}

\* ------------------------------------------------- JavaScript's non-numbers
NaN == 9999
Null == 9998
Undefined == 9997
OffCanvas == 100

IsNum(v) == v # NaN /\ v # Null /\ v # Undefined

Min2(a, b) == IF a < b THEN a ELSE b
Max2(a, b) == IF a > b THEN a ELSE b

\* unary minus: -undefined and -NaN are NaN
Neg(v) == IF v = NaN \/ v = Undefined THEN NaN ELSE IF v = Null THEN 0 ELSE 0 - v

\* a < b of JavaScript on operands held in the same unit: false on NaN, null is 0
ToNum(v) == IF v = Null THEN 0 ELSE v
Lt(a, b) == a # NaN /\ b # NaN /\ a # Undefined /\ b # Undefined /\ ToNum(a) < ToNum(b)
Le(a, b) == a # NaN /\ b # NaN /\ a # Undefined /\ b # Undefined /\ ToNum(a) <= ToNum(b)

\* Math.floor and Math.round of a position, in cells
Floor(x) == x \div U
Round(x) == (2 * x + U) \div (2 * U)

\* ------------------------------------------------------------ the helpers
\* getRandomInt(min, max): the integers the call can return
getRandomInt(min, max) == min .. (max - 1)

\* getRandomIntInclusive(min, max)
getRandomIntInclusive(min, max) == min .. max

\* getRandomIntExclude(min, max, exclude): a hit on exclude is nudged by one
getRandomIntExclude(min, max, exclude) ==
    { IF random = exclude
        THEN (IF random > min THEN random - 1 ELSE random + 1)
        ELSE random : random \in min .. (max - 1) }

Range(arr) == { arr[i] : i \in DOMAIN arr }

\* getRandomIntExcludeMultiple(min, max, excludeArray): an element of the
\* candidate list, or undefined (randomArray[0] of an empty list)
getRandomIntExcludeMultiple(min, max, excludeArray) ==
    LET randomArray == { i \in min .. max : i \notin Range(excludeArray) }
    IN  IF randomArray = {} THEN {Undefined} ELSE randomArray

\* Array.prototype.splice: the start index, clamped as the language does
SpliceStart(start, len) ==
    IF start = NaN \/ start = Null \/ start = Undefined THEN 0
    ELSE IF start < 0 THEN Max2(len + start, 0)
    ELSE Min2(start, len)

\* arr.splice(start, 0, item)
SpliceInsert(arr, start, item) ==
    LET i == SpliceStart(start, Len(arr))
    IN  SubSeq(arr, 1, i) \o <<item>> \o SubSeq(arr, i + 1, Len(arr))

\* arr.splice(start, 1)
SpliceDelete(arr, start) ==
    LET i == SpliceStart(start, Len(arr))
    IN  IF i < Len(arr)
          THEN SubSeq(arr, 1, i) \o SubSeq(arr, i + 2, Len(arr))
          ELSE arr

\* ------------------------------------------------------------- the board
Cols == getRandomInt(0, 5)
LaneRows == getRandomInt(1, 4)
BoxCells == Cols \X LaneRows
NoCell == <<0, 0>>

VARIABLES
    pc,              \* position in the frame loop
    ei,              \* index of the enemy of the running forEach
    dt,              \* time delta of the running frame, in 1/U seconds
    frames,          \* frames run so far
    start,           \* Engine: start
    gameOver,
    hit,
    goalReached,
    points,
    boxesLost,       \* boxesLost.length
    elapsed,         \* lastTime - startTime, in 1/U seconds
    gameSeconds,
    heartX,
    heartY,
    player,
    allEnemies,
    box,
    heart,
    goal,
    allRocks,
    enemyQueueLanes, \* enemyQueueLanes[r].enemies, r in 1..3 for rows 1..3
    boardLanes       \* boardLanes[r].enemies, r in 1..3

vars == <<pc, ei, dt, frames, start, gameOver, hit, goalReached, points,
          boxesLost, elapsed, gameSeconds, heartX, heartY, player, allEnemies,
          box, heart, goal, allRocks, enemyQueueLanes, boardLanes>>

\* speeds of the five enemies of allEnemies
EnemySpeeds == <<1, 2, 2, 4, 4>>
NumEnemies == Len(EnemySpeeds)

\* ------------------------------------------------------------- Player
\* the Player constructor
NewPlayer ==
    [x |-> 2 * U, y |-> 5 * U, moveX |-> 2, moveY |-> 5, moveDirection |-> "",
     moveSpeed |-> 5, moving |-> FALSE, movements |-> 0, deliveries |-> 0,
     lives |-> 3, level |-> 1]

\* checkLevel with the band edges compared by <= : 1000 is still level 1
checkLevelLate(p, pts) ==
    IF pts <= 1000 THEN [p EXCEPT !.level = 1]
    ELSE IF pts <= 2000 THEN [p EXCEPT !.level = 2, !.moveSpeed = 6]
    ELSE IF pts <= 3000 THEN [p EXCEPT !.level = 3, !.moveSpeed = 7]
    ELSE IF pts <= 4000 THEN [p EXCEPT !.level = 4, !.moveSpeed = 8]
    ELSE IF pts <= 5000 THEN [p EXCEPT !.level = 5, !.moveSpeed = 9]
    ELSE IF pts <= 6000 THEN [p EXCEPT !.level = 6, !.moveSpeed = 10]
    ELSE IF pts <= 7000 THEN [p EXCEPT !.level = 7, !.moveSpeed = 11]
    ELSE IF pts <= 8000 THEN [p EXCEPT !.level = 8, !.moveSpeed = 12]
    ELSE IF pts <= 9000 THEN [p EXCEPT !.level = 9, !.moveSpeed = 13]
    ELSE IF pts < 10000 THEN [p EXCEPT !.level = 10, !.moveSpeed = 14]
    ELSE p

\* Player.prototype.checkLevel, on the player record p with the score pts
checkLevel(p, pts) ==
    IF pts < 1000 THEN [p EXCEPT !.level = 1]
    ELSE IF pts < 2000 THEN [p EXCEPT !.level = 2, !.moveSpeed = 6]
    ELSE IF pts < 3000 THEN [p EXCEPT !.level = 3, !.moveSpeed = 7]
    ELSE IF pts < 4000 THEN [p EXCEPT !.level = 4, !.moveSpeed = 8]
    ELSE IF pts < 5000 THEN [p EXCEPT !.level = 5, !.moveSpeed = 9]
    ELSE IF pts < 6000 THEN [p EXCEPT !.level = 6, !.moveSpeed = 10]
    ELSE IF pts < 7000 THEN [p EXCEPT !.level = 7, !.moveSpeed = 11]
    ELSE IF pts < 8000 THEN [p EXCEPT !.level = 8, !.moveSpeed = 12]
    ELSE IF pts < 9000 THEN [p EXCEPT !.level = 9, !.moveSpeed = 13]
    ELSE IF pts < 10000 THEN [p EXCEPT !.level = 10, !.moveSpeed = 14]
    ELSE p

\* intersects with the two column comparisons made inclusive
intersectsClosed(p, enemy) ==
    /\ enemy.x # NaN
    /\ enemy.y * U = p.y
    /\ 2 * enemy.x >= 2 * p.x - U
    /\ 2 * enemy.x <= 2 * p.x + U

\* Player.prototype.intersects(enemy): the comparisons are strict
intersects(p, enemy) ==
    /\ enemy.x # NaN
    /\ enemy.y * U = p.y
    /\ 2 * enemy.x > 2 * p.x - U
    /\ 2 * enemy.x < 2 * p.x + U

\* Player.prototype.collects(item)
collects(p, item) == item.x = p.x /\ item.y = p.y

\* Player.prototype.reachesGoal(item)
reachesGoal(item) == item.x = goal.x * U /\ item.y = goal.y * U

\* the movement branch with the two sides of each clamp exchanged
MovePlayerSwapped(p, d) ==
    IF p.x > p.moveX * U /\ p.moveDirection = "left"
      THEN [p EXCEPT !.x = Min2(p.x - d * p.moveSpeed, p.moveX * U)]
    ELSE IF p.x < p.moveX * U /\ p.moveDirection = "right"
      THEN [p EXCEPT !.x = Max2(p.x + d * p.moveSpeed, p.moveX * U)]
    ELSE IF p.y > p.moveY * U /\ p.moveDirection = "up"
      THEN [p EXCEPT !.y = Min2(p.y - d * p.moveSpeed, p.moveY * U)]
    ELSE IF p.y < p.moveY * U /\ p.moveDirection = "down"
      THEN [p EXCEPT !.y = Max2(p.y + d * p.moveSpeed, p.moveY * U)]
    ELSE [p EXCEPT !.moving = FALSE, !.x = Round(p.x) * U, !.y = Round(p.y) * U]

\* the movement branch without the clamp at the target cell
MovePlayerOver(p, d) ==
    IF p.x > p.moveX * U /\ p.moveDirection = "left"
      THEN [p EXCEPT !.x = p.x - d * p.moveSpeed]
    ELSE IF p.x < p.moveX * U /\ p.moveDirection = "right"
      THEN [p EXCEPT !.x = p.x + d * p.moveSpeed]
    ELSE IF p.y > p.moveY * U /\ p.moveDirection = "up"
      THEN [p EXCEPT !.y = p.y - d * p.moveSpeed]
    ELSE IF p.y < p.moveY * U /\ p.moveDirection = "down"
      THEN [p EXCEPT !.y = p.y + d * p.moveSpeed]
    ELSE [p EXCEPT !.moving = FALSE, !.x = Round(p.x) * U, !.y = Round(p.y) * U]

\* the movement branch with every step taken away from the target
MovePlayerAway(p, d) ==
    IF p.x > p.moveX * U /\ p.moveDirection = "left"
      THEN [p EXCEPT !.x = p.x + d * p.moveSpeed]
    ELSE IF p.x < p.moveX * U /\ p.moveDirection = "right"
      THEN [p EXCEPT !.x = p.x - d * p.moveSpeed]
    ELSE IF p.y > p.moveY * U /\ p.moveDirection = "up"
      THEN [p EXCEPT !.y = p.y + d * p.moveSpeed]
    ELSE IF p.y < p.moveY * U /\ p.moveDirection = "down"
      THEN [p EXCEPT !.y = p.y - d * p.moveSpeed]
    ELSE [p EXCEPT !.moving = FALSE, !.x = Round(p.x) * U, !.y = Round(p.y) * U]

\* the movement branch (moving and not hit) of Player.prototype.update
MovePlayer(p, d) ==
    IF p.x > p.moveX * U /\ p.moveDirection = "left"
      THEN [p EXCEPT !.x = Max2(p.x - d * p.moveSpeed, p.moveX * U)]
    ELSE IF p.x < p.moveX * U /\ p.moveDirection = "right"
      THEN [p EXCEPT !.x = Min2(p.x + d * p.moveSpeed, p.moveX * U)]
    ELSE IF p.y > p.moveY * U /\ p.moveDirection = "up"
      THEN [p EXCEPT !.y = Max2(p.y - d * p.moveSpeed, p.moveY * U)]
    ELSE IF p.y < p.moveY * U /\ p.moveDirection = "down"
      THEN [p EXCEPT !.y = Min2(p.y + d * p.moveSpeed, p.moveY * U)]
    ELSE [p EXCEPT !.moving = FALSE, !.x = Round(p.x) * U, !.y = Round(p.y) * U]

\* the hit branch with lives left, without the assignment of moveX
LoseLifeStay(p, c) ==
    [p EXCEPT !.lives = p.lives - 1, !.x = c * U, !.y = 5 * U, !.moveY = 5]

\* the hit branch with lives left: lose a life, restart at column c of row 5
LoseLife(p, c) ==
    [p EXCEPT !.lives = p.lives - 1, !.x = c * U, !.y = 5 * U,
              !.moveX = c, !.moveY = 5]

\* the hit branch on the last life, without the reset of the lives
LastLifeKeep(p) ==
    [p EXCEPT !.x = 2 * U, !.y = 5 * U, !.moveX = 2, !.moveY = 5]

\* the hit branch on the last life taking the life as the other branch does
LastLifeTaken(p) ==
    [p EXCEPT !.x = 2 * U, !.y = 5 * U, !.moveX = 2, !.moveY = 5,
              !.lives = p.lives - 1]

\* the hit branch on the last life: back to the home cell with 3 lives
LastLife(p) ==
    [p EXCEPT !.x = 2 * U, !.y = 5 * U, !.moveX = 2, !.moveY = 5, !.lives = 3]

\* Player.prototype.update(dt)
PlayerUpdate ==
    /\ pc = "player"
    /\ LET p1 == IF player.moving /\ ~hit THEN MovePlayer(player, dt) ELSE player
       IN  IF hit
             THEN IF p1.lives > 1
                    THEN \E c \in getRandomInt(1, 4) :
                           /\ player' = checkLevel(LoseLife(p1, c), points)
                           /\ UNCHANGED <<gameOver, box>>
                    ELSE \E bx \in getRandomInt(0, 5), by \in getRandomInt(1, 4) :
                           /\ player' = checkLevel(LastLife(p1), points)
                           /\ gameOver' = TRUE
                           /\ box' = [box EXCEPT !.ranOver = 0, !.x = bx * U, !.y = by * U]
             ELSE /\ player' = checkLevel(p1, points)
                  /\ UNCHANGED <<gameOver, box>>
    /\ hit' = FALSE
    /\ pc' = "enemy"
    /\ ei' = 1
    /\ UNCHANGED <<dt, frames, start, goalReached, points, boxesLost, elapsed,
                   gameSeconds, heartX, heartY, allEnemies, heart, goal,
                   allRocks, enemyQueueLanes, boardLanes>>

\* the rock test looking at no rock at all
ObstructedNever(p, keyCode) == FALSE

\* the rock test without the comparison of the second coordinate: a rock
\* anywhere in the player's row (left, right) or column (up, down) obstructs
ObstructedLine(p, keyCode) ==
    \E i \in DOMAIN allRocks :
      LET rock == allRocks[i]
      IN  CASE keyCode = "left"  -> rock.y * U = p.y
            [] keyCode = "up"    -> rock.x * U = p.x
            [] keyCode = "right" -> rock.y * U = p.y
            [] keyCode = "down"  -> rock.x * U = p.x
            [] OTHER -> FALSE

\* the rock test looking two cells away instead of one
ObstructedFar(p, keyCode) ==
    \E i \in DOMAIN allRocks :
      LET rock == allRocks[i]
      IN  CASE keyCode = "left"  -> rock.y * U = p.y /\ rock.x * U = p.x - 2 * U
            [] keyCode = "up"    -> rock.x * U = p.x /\ rock.y * U = p.y - 2 * U
            [] keyCode = "right" -> rock.y * U = p.y /\ rock.x * U = p.x + 2 * U
            [] keyCode = "down"  -> rock.x * U = p.x /\ rock.y * U = p.y + 2 * U
            [] OTHER -> FALSE

\* Player.prototype.handleInput(keyCode): is a rock on the destination cell
Obstructed(p, keyCode) ==
    \E i \in DOMAIN allRocks :
      LET rock == allRocks[i]
      IN  CASE keyCode = "left"  -> rock.y * U = p.y /\ rock.x * U = p.x - U
            [] keyCode = "up"    -> rock.x * U = p.x /\ rock.y * U = p.y - U
            [] keyCode = "right" -> rock.y * U = p.y /\ rock.x * U = p.x + U
            [] keyCode = "down"  -> rock.x * U = p.x /\ rock.y * U = p.y + U
            [] OTHER -> FALSE

\* handleInput without the tests of the board's bounds
handleInputUnbounded(p, keyCode) ==
    CASE keyCode = "left" /\ ~Obstructed(p, keyCode) /\ ~p.moving ->
           [p EXCEPT !.moveDirection = "left", !.moving = TRUE,
                     !.moveX = p.moveX - 1, !.movements = p.movements + 1]
      [] keyCode = "up" /\ ~Obstructed(p, keyCode) /\ ~p.moving ->
           [p EXCEPT !.moveDirection = "up", !.moving = TRUE,
                     !.moveY = p.moveY - 1, !.movements = p.movements + 1]
      [] keyCode = "right" /\ ~Obstructed(p, keyCode) /\ ~p.moving ->
           [p EXCEPT !.moveDirection = "right", !.moving = TRUE,
                     !.moveX = p.moveX + 1, !.movements = p.movements + 1]
      [] keyCode = "down" /\ ~Obstructed(p, keyCode) /\ ~p.moving ->
           [p EXCEPT !.moveDirection = "down", !.moving = TRUE,
                     !.moveY = p.moveY + 1, !.movements = p.movements + 1]
      [] OTHER -> p

\* Player.prototype.handleInput(keyCode): the player after the call
handleInput(p, keyCode) ==
    CASE keyCode = "left" /\ ~Obstructed(p, keyCode) /\ p.x > 0 /\ ~p.moving ->
           [p EXCEPT !.moveDirection = "left", !.moving = TRUE,
                     !.moveX = p.moveX - 1, !.movements = p.movements + 1]
      [] keyCode = "up" /\ ~Obstructed(p, keyCode) /\ p.y > 0 /\ ~p.moving ->
           [p EXCEPT !.moveDirection = "up", !.moving = TRUE,
                     !.moveY = p.moveY - 1, !.movements = p.movements + 1]
      [] keyCode = "right" /\ ~Obstructed(p, keyCode) /\ p.x < 4 * U /\ ~p.moving ->
           [p EXCEPT !.moveDirection = "right", !.moving = TRUE,
                     !.moveX = p.moveX + 1, !.movements = p.movements + 1]
      [] keyCode = "down" /\ ~Obstructed(p, keyCode) /\ p.y < 5 * U /\ ~p.moving ->
           [p EXCEPT !.moveDirection = "down", !.moving = TRUE,
                     !.moveY = p.moveY + 1, !.movements = p.movements + 1]
      [] OTHER -> p

\* the keys of the keyup listener; "other" is a key outside allowedKeys
Keys == {"left", "up", "right", "down", "other"}

\* the keyup listener: player.handleInput(allowedKeys[e.keyCode])
KeyUp ==
    /\ pc = "main"
    /\ \E keyCode \in Keys : player' = handleInput(player, keyCode)
    /\ UNCHANGED <<pc, ei, dt, frames, start, gameOver, hit, goalReached, points,
                   boxesLost, elapsed, gameSeconds, heartX, heartY, allEnemies,
                   box, heart, goal, allRocks, enemyQueueLanes, boardLanes>>

\* -------------------------------------------------------------- Enemy
\* the Enemy constructor, placed k columns off the board in row y
NewEnemy(speed, k, y) ==
    [x |-> (0 - k) * U, y |-> y, speed |-> speed, prevX |-> Null,
     visable |-> FALSE, hitBox |-> FALSE, laneOrder |-> 0]

\* the enemy left where it is: the advance forgotten
AdvanceStill(e, d) == e

\* this.x = this.x + dt * this.speed
Advance(e, d) == IF e.x = NaN THEN e ELSE [e EXCEPT !.x = e.x + d * e.speed]

\* the first branch: the enemy comes onto the board
Appears(e) == e.x # NaN /\ e.x > 0 /\ ~e.visable

\* the second branch: the enemy has crossed the board and respawns
Leaves(e) == e.x # NaN /\ e.x >= 5 * U /\ e.visable

\* the respawn adding the re-rolled speed to the old one
RespawnFaster(e, ny, slot, nspeed) ==
    [e EXCEPT !.visable = FALSE, !.y = ny,
              !.x = IF slot = Undefined THEN NaN ELSE (0 - slot) * U,
              !.prevX = Neg(slot), !.speed = e.speed + nspeed, !.hitBox = FALSE]

\* the respawned enemy in row ny, slot slot (undefined when none is free)
Respawn(e, ny, slot, nspeed) ==
    [e EXCEPT !.visable = FALSE, !.y = ny,
              !.x = IF slot = Undefined THEN NaN ELSE (0 - slot) * U,
              !.prevX = Neg(slot), !.speed = nspeed, !.hitBox = FALSE]

\* the guard of the queue-position update of the last branch
QueueMoves(e) ==
    /\ ~e.visable
    /\ e.x # NaN
    /\ Lt(e.prevX, Floor(e.x))

\* enemyX of the last branch, in units, after the queue-position update
EnemyX(e) ==
    IF QueueMoves(e)
      THEN (IF Floor(e.x) < 0 THEN 0 - Floor(e.x) ELSE Floor(e.x)) * U
      ELSE e.x

\* the forEach adopting the speed of a faster enemy instead of a slower one
MatchSpeedFaster(e, enemyX, all) ==
    LET matches == { j \in DOMAIN all :
                       /\ all[j].y = e.y
                       /\ enemyX # NaN /\ all[j].x # NaN
                       /\ enemyX <= all[j].x + U
                       /\ all[j].speed > e.speed }
    IN  IF matches = {} THEN 0
        ELSE all[CHOOSE j \in matches : \A k \in matches : k <= j].speed

\* the forEach of the last branch: the speed of the last enemy of the list
\* that is in the row, slower, and not more than a column behind enemyX
MatchSpeed(e, enemyX, all) ==
    LET matches == { j \in DOMAIN all :
                       /\ all[j].y = e.y
                       /\ enemyX # NaN /\ all[j].x # NaN
                       /\ enemyX <= all[j].x + U
                       /\ all[j].speed < e.speed }
    IN  IF matches = {} THEN 0
        ELSE all[CHOOSE j \in matches : \A k \in matches : k <= j].speed

\* the collision check against the box without the test of the flag
RunOverAgain(e, b) ==
    /\ e.y * U = b.y
    /\ e.x # NaN
    /\ 2 * e.x > 2 * b.x - U
    /\ 2 * e.x < 2 * b.x + U

\* the enemy's collision check against the box
RunOver(e, b) ==
    /\ e.y * U = b.y
    /\ ~e.hitBox
    /\ e.x # NaN
    /\ 2 * e.x > 2 * b.x - U
    /\ 2 * e.x < 2 * b.x + U

\* the tail of Enemy.prototype.update: the checks against player and box
Collide(e, i) ==
    /\ hit' = (hit \/ intersects(player, e))
    /\ IF RunOver(e, box)
         THEN /\ allEnemies' = [allEnemies EXCEPT ![i] = [e EXCEPT !.hitBox = TRUE]]
              /\ box' = [box EXCEPT !.ranOver = box.ranOver + 1]
         ELSE /\ allEnemies' = [allEnemies EXCEPT ![i] = e]
              /\ UNCHANGED box

\* Enemy.prototype.update(dt) of allEnemies[ei]
EnemyUpdate ==
    /\ pc = "enemy"
    /\ LET e1 == Advance(allEnemies[ei], dt)
       IN  IF Appears(e1)
             THEN /\ enemyQueueLanes' =
                       [enemyQueueLanes EXCEPT ![e1.y] = SpliceDelete(@, Floor(e1.x))]
                  /\ boardLanes' =
                       [boardLanes EXCEPT ![e1.y] = SpliceInsert(@, Floor(e1.x), e1.x)]
                  /\ Collide([e1 EXCEPT !.visable = TRUE], ei)
           ELSE IF Leaves(e1)
             THEN \E ny \in getRandomInt(1, 4), nspeed \in getRandomInt(1, 4) :
                  \E slot \in getRandomIntExcludeMultiple(1, 5, enemyQueueLanes[ny]) :
                    /\ boardLanes' =
                         [boardLanes EXCEPT ![ny] = SpliceDelete(@, e1.laneOrder)]
                    /\ enemyQueueLanes' =
                         [enemyQueueLanes EXCEPT
                            ![ny] = SpliceInsert(@, IF slot = Undefined THEN NaN ELSE slot,
                                                    IF slot = Undefined THEN NaN ELSE slot)]
                    /\ Collide(Respawn(e1, ny, slot, nspeed), ei)
           ELSE LET enemyX == EnemyX(e1)
                    e2 == IF QueueMoves(e1) THEN [e1 EXCEPT !.prevX = enemyX \div U] ELSE e1
                    newSpeed == MatchSpeed(e1, enemyX, [allEnemies EXCEPT ![ei] = e1])
                    e3 == IF newSpeed > 0 THEN [e2 EXCEPT !.speed = newSpeed] ELSE e2
                IN  /\ enemyQueueLanes' =
                         IF QueueMoves(e1)
                           THEN [enemyQueueLanes EXCEPT
                                   ![e1.y] = SpliceInsert(SpliceDelete(@, e1.prevX),
                                                          enemyX \div U, enemyX \div U)]
                           ELSE enemyQueueLanes
                    /\ UNCHANGED boardLanes
                    /\ Collide(e3, ei)
    /\ IF ei < NumEnemies
         THEN /\ ei' = ei + 1
              /\ pc' = "enemy"
         ELSE /\ ei' = 1
              /\ pc' = "box"
    /\ UNCHANGED <<dt, frames, start, gameOver, goalReached, points, boxesLost,
                   elapsed, gameSeconds, heartX, heartY, player, heart, goal, allRocks>>

\* --------------------------------------------------------------- Item
\* the Item constructor of type indiebox, at cell c
NewBox(c) == [x |-> c[1] * U, y |-> c[2] * U, collected |-> FALSE, ranOver |-> 0]

\* the Item constructor of type heart
NewHeart == [x |-> OffCanvas * U, y |-> OffCanvas * U, collected |-> FALSE, ranOver |-> 0]

\* item.x = c[1]; item.y = c[2]
PlaceAt(item, c) == [item EXCEPT !.x = c[1] * U, !.y = c[2] * U]

\* the player is hit while carrying the box: the box is put back at cell c
Dropped(b, c) ==
    IF hit /\ b.collected THEN PlaceAt([b EXCEPT !.collected = FALSE], c) ELSE b

\* if(player.collects(this)) this.collected = true
Collected(b) == IF collects(player, b) THEN [b EXCEPT !.collected = TRUE] ELSE b

\* a collected box follows the player
Follows(b) == IF b.collected THEN [b EXCEPT !.x = player.x, !.y = player.y] ELSE b

\* the payout switch with 100 points whatever the damage
PayoutFlat(ranOver) == 100

\* the points of a delivery, by the switch on ranOver
Payout(ranOver) ==
    CASE ranOver = 0 -> 100
      [] ranOver = 1 -> 50
      [] ranOver = 2 -> 25
      [] OTHER -> 0

\* the box is delivered by this update
Delivers(b) == b.collected /\ reachesGoal(b)

\* the delivered box is reset and put at cell c
Delivered(b, c) == PlaceAt([b EXCEPT !.collected = FALSE, !.ranOver = 0], c)

\* case 3 of the switch on ranOver: the box is destroyed and put at cell c
Destroyed(b, c) == PlaceAt([b EXCEPT !.ranOver = 0], c)

\* the cells a random relocation draws from, when it happens
Draw(happens) == IF happens THEN BoxCells ELSE {NoCell}

\* Item.prototype.update of the box (type indiebox)
BoxUpdate ==
    /\ pc = "box"
    /\ \E c1 \in Draw(hit /\ box.collected) :
         LET b1 == Follows(Collected(Dropped(box, c1)))
             delivers == Delivers(b1)
         IN  \E c2 \in Draw(delivers) :
             \E rockX \in IF delivers THEN [DOMAIN allRocks -> getRandomInt(0, 5)]
                                      ELSE {[i \in DOMAIN allRocks |-> allRocks[i].x]} :
               LET b2 == IF delivers THEN Delivered(b1, c2) ELSE b1
                   p1 == IF delivers THEN points + Payout(b1.ranOver) ELSE points
                   destroyed == b2.ranOver = 3
               IN  \E c3 \in Draw(destroyed) :
                     /\ box' = IF destroyed THEN Destroyed(b2, c3) ELSE b2
                     /\ points' = IF destroyed THEN p1 - 50 ELSE p1
                     /\ boxesLost' = IF destroyed THEN boxesLost + 1 ELSE boxesLost
                     /\ allEnemies' =
                          IF destroyed
                            THEN [i \in DOMAIN allEnemies |->
                                    [allEnemies[i] EXCEPT !.hitBox = FALSE]]
                            ELSE allEnemies
                     /\ player' = IF delivers
                                    THEN [player EXCEPT !.deliveries = @ + 1]
                                    ELSE player
                     /\ goalReached' = (goalReached \/ delivers)
                     /\ allRocks' = [i \in DOMAIN allRocks |->
                                       [allRocks[i] EXCEPT !.x = rockX[i]]]
    /\ pc' = "goal"
    /\ UNCHANGED <<ei, dt, frames, start, gameOver, hit, elapsed, gameSeconds,
                   heartX, heartY, heart, goal, enemyQueueLanes, boardLanes>>

\* Goal.prototype.update
GoalUpdate ==
    /\ pc = "goal"
    /\ IF goalReached
         THEN \E gx \in getRandomInt(0, 5) : goal' = [goal EXCEPT !.x = gx]
         ELSE UNCHANGED goal
    /\ goalReached' = FALSE
    /\ pc' = "heart"
    /\ UNCHANGED <<ei, dt, frames, start, gameOver, hit, points, boxesLost,
                   elapsed, gameSeconds, heartX, heartY, player, allEnemies, box,
                   heart, allRocks, enemyQueueLanes, boardLanes>>

\* the test of the seconds made against 30 whatever the period asked
EveryThirty(m) == gameSeconds # NaN /\ gameSeconds % 30 = 0

\* gameSeconds % m === 0 (never true of NaN)
Every(m) == gameSeconds # NaN /\ gameSeconds % m = 0

\* heart.x = heartX; heart.y = heartY  (undefined before the first roll)
Shown(h) ==
    [h EXCEPT !.x = IF heartX = Undefined THEN Undefined ELSE heartX * U,
              !.y = IF heartY = Undefined THEN Undefined ELSE heartY * U]

\* the heart is taken off the canvas
Hidden(h) == [h EXCEPT !.collected = FALSE, !.x = OffCanvas * U, !.y = OffCanvas * U]

\* the heart update granting the life without the bonus points
HeartUpdateNoBonus ==
    /\ pc = "heart"
    /\ LET taken == collects(player, heart) \/ heart.collected
           h1 == IF taken THEN Hidden(heart) ELSE heart
           h2 == IF Every(30) THEN Shown(h1) ELSE h1
       IN  /\ player' = IF taken THEN [player EXCEPT !.lives = @ + 1] ELSE player
           /\ IF Every(9)
                THEN \E hx \in getRandomInt(0, 5), hy \in getRandomIntExclude(1, 5, 4) :
                       /\ heart' = Hidden(h2)
                       /\ heartX' = hx
                       /\ heartY' = hy
                ELSE /\ heart' = h2
                     /\ UNCHANGED <<heartX, heartY>>
    /\ pc' = "timer"
    /\ UNCHANGED <<ei, dt, frames, start, gameOver, hit, goalReached, boxesLost, points,
                   elapsed, gameSeconds, allEnemies, box, goal, allRocks,
                   enemyQueueLanes, boardLanes>>

\* Item.prototype.update of the heart (type heart)
HeartUpdate ==
    /\ pc = "heart"
    /\ LET taken == collects(player, heart) \/ heart.collected
           h1 == IF taken THEN Hidden(heart) ELSE heart
           h2 == IF Every(30) THEN Shown(h1) ELSE h1
       IN  /\ player' = IF taken THEN [player EXCEPT !.lives = @ + 1] ELSE player
           /\ points' = IF taken THEN points + 50 ELSE points
           /\ IF Every(9)
                THEN \E hx \in getRandomInt(0, 5), hy \in getRandomIntExclude(1, 5, 4) :
                       /\ heart' = Hidden(h2)
                       /\ heartX' = hx
                       /\ heartY' = hy
                ELSE /\ heart' = h2
                     /\ UNCHANGED <<heartX, heartY>>
    /\ pc' = "timer"
    /\ UNCHANGED <<ei, dt, frames, start, gameOver, hit, goalReached, boxesLost,
                   elapsed, gameSeconds, allEnemies, box, goal, allRocks,
                   enemyQueueLanes, boardLanes>>

\* ------------------------------------------------------------- Engine
\* new Date(lastTime - startTime).getSeconds()
Seconds(t) == (t \div U) % 60

\* main(): lastTime = now; updateTimer(lastTime); then the gameOver test
UpdateTimer ==
    /\ pc = "timer"
    /\ elapsed' = elapsed + dt
    /\ gameSeconds' = Seconds(elapsed + dt)
    /\ pc' = IF gameOver THEN "reset" ELSE "main"
    /\ UNCHANGED <<ei, dt, frames, start, gameOver, hit, goalReached, points,
                   boxesLost, heartX, heartY, player, allEnemies, box, heart,
                   goal, allRocks, enemyQueueLanes, boardLanes>>

\* main(): a frame begins with time delta d; update(dt) runs the entity
\* updates when the game is started and not over
Main ==
    /\ pc = "main"
    /\ frames < MaxFrames
    /\ \E d \in DtSet : dt' = d
    /\ frames' = frames + 1
    /\ pc' = IF start
               THEN (IF gameOver THEN "timer" ELSE "player")
               ELSE (IF gameOver THEN "reset" ELSE "main")
    /\ UNCHANGED <<ei, start, gameOver, hit, goalReached, points, boxesLost,
                   elapsed, gameSeconds, heartX, heartY, player, allEnemies, box,
                   heart, goal, allRocks, enemyQueueLanes, boardLanes>>

\* main() of the longer sessions without the test of the start flag
MainLiveAlways ==
    /\ pc = "main"
    /\ frames < LiveFrames
    /\ \E d \in DtSet : dt' = d
    /\ frames' = frames + 1
    /\ pc' = IF gameOver THEN "timer" ELSE "player"
    /\ UNCHANGED <<ei, start, gameOver, hit, goalReached, points, boxesLost,
                   elapsed, gameSeconds, heartX, heartY, player, allEnemies, box,
                   heart, goal, allRocks, enemyQueueLanes, boardLanes>>

\* main() as above, for the longer sessions of SpecLive
MainLive ==
    /\ pc = "main"
    /\ frames < LiveFrames
    /\ \E d \in DtSet : dt' = d
    /\ frames' = frames + 1
    /\ pc' = IF start
               THEN (IF gameOver THEN "timer" ELSE "player")
               ELSE (IF gameOver THEN "reset" ELSE "main")
    /\ UNCHANGED <<ei, start, gameOver, hit, goalReached, points, boxesLost,
                   elapsed, gameSeconds, heartX, heartY, player, allEnemies, box,
                   heart, goal, allRocks, enemyQueueLanes, boardLanes>>

\* reset() keeping the player and the score of the session that ended
ResetKeep ==
    /\ pc = "reset"
    /\ \E confirm \in BOOLEAN : gameOver' = ~confirm
    /\ elapsed' = 0
    /\ boxesLost' = 0
    /\ \E c \in BoxCells : box' = NewBox(c)
    /\ gameSeconds' = NaN
    /\ pc' = "main"
    /\ UNCHANGED <<ei, dt, frames, start, hit, goalReached, heartX, heartY, player,
                   points, allEnemies, heart, goal, allRocks, enemyQueueLanes,
                   boardLanes>>

\* reset() of main(), the game being over: the prompt, then a new session
Reset ==
    /\ pc = "reset"
    /\ \E confirm \in BOOLEAN : gameOver' = ~confirm
    /\ elapsed' = 0
    /\ boxesLost' = 0
    /\ player' = NewPlayer
    /\ \E c \in BoxCells : box' = NewBox(c)
    /\ points' = 0
    /\ gameSeconds' = NaN
    /\ pc' = "main"
    /\ UNCHANGED <<ei, dt, frames, start, hit, goalReached, heartX, heartY,
                   allEnemies, heart, goal, allRocks, enemyQueueLanes, boardLanes>>

\* reset() of init(), the game not being over: start = confirm('Start game?')
StartPrompt ==
    /\ pc = "init"
    /\ \E confirm \in BOOLEAN : start' = confirm
    /\ pc' = "main"
    /\ UNCHANGED <<ei, dt, frames, gameOver, hit, goalReached, points, boxesLost,
                   elapsed, gameSeconds, heartX, heartY, player, allEnemies, box,
                   heart, goal, allRocks, enemyQueueLanes, boardLanes>>

\* ------------------------------------------------------- initial states
\* the lane queues after the Enemy constructors have run in order, the
\* enemy i being placed at pl[i] = <<columns off the board, row>>
RECURSIVE QueuesAfter(_, _)
QueuesAfter(pl, n) ==
    IF n = 0 THEN [r \in 1..3 |-> <<>>]
    ELSE LET q == QueuesAfter(pl, n - 1)
         IN  [q EXCEPT ![pl[n][2]] = SpliceInsert(@, pl[n][1], pl[n][1])]

\* placements of the five enemies drawn by the constructors
PlacementA == <<<<2, 1>>, <<4, 1>>, <<6, 1>>, <<1, 2>>, <<2, 2>>>>
PlacementB == <<<<7, 1>>, <<3, 2>>, <<3, 2>>, <<1, 2>>, <<2, 2>>>>
PlacementH == <<<<7, 1>>, <<7, 2>>, <<7, 1>>, <<7, 3>>, <<7, 1>>>>
PlacementC == <<<<7, 3>>, <<5, 1>>, <<7, 3>>, <<1, 2>>, <<7, 2>>>>
PlacementO == <<<<2, 1>>, <<7, 2>>, <<7, 3>>, <<3, 1>>, <<7, 2>>>>

\* the state when the scripts have loaded, before init() asks to start:
\* enemy placement pl, the box at cell c, the rock in column rockX
Constructed(pl, c, rockX) ==
    /\ pc = "init"
    /\ ei = 1
    /\ dt = 0
    /\ frames = 0
    /\ start = FALSE
    /\ gameOver = FALSE
    /\ hit = FALSE
    /\ goalReached = FALSE
    /\ points = 0
    /\ boxesLost = 0
    /\ elapsed = U
    /\ gameSeconds = 0
    /\ heartX = Undefined
    /\ heartY = Undefined
    /\ player = NewPlayer
    /\ allEnemies = [i \in 1..NumEnemies |->
                       NewEnemy(EnemySpeeds[i], pl[i][1], pl[i][2])]
    /\ enemyQueueLanes = QueuesAfter(pl, NumEnemies)
    /\ boardLanes = [r \in 1..3 |-> <<>>]
    /\ box = NewBox(c)
    /\ heart = NewHeart
    /\ goal = [x |-> 2, y |-> 0]
    /\ allRocks = <<[x |-> rockX, y |-> 4]>>

InitConstructed ==
    \/ Constructed(PlacementA, <<2, 2>>, 0)
    \/ Constructed(PlacementB, <<3, 2>>, 0)
    \/ Constructed(PlacementH, <<4, 1>>, 0)
    \/ Constructed(PlacementH, <<4, 1>>, 2)
    \/ Constructed(PlacementC, <<4, 3>>, 0)
    \/ Constructed(PlacementO, <<4, 3>>, 0)

(***************************************************************************)
(* States of a running session, between two frames.  Each scene below is a *)
(* state that the model reaches from a constructed state above (placement  *)
(* and box cell named with it) when MaxFrames is large enough; it was      *)
(* found by TLC from that state, the units being those of Half = 3.  The   *)
(* scenes save the frames that lead up to the situations of interest.      *)
(* enemy(x, y, prevX, speed, visable) has hitBox false.                    *)
(***************************************************************************)
enemy(x, y, prevX, speed, visable) ==
    [x |-> x, y |-> y, prevX |-> prevX, speed |-> speed, visable |-> visable,
     hitBox |-> FALSE, laneOrder |-> 0]

\* a scene: the session state common to all of them
Running ==
    /\ pc = "main"
    /\ ei = 1
    /\ dt = 0
    /\ frames = 0
    /\ start = TRUE
    /\ gameOver = FALSE
    /\ hit = FALSE
    /\ goalReached = FALSE
    /\ boxesLost = 0
    /\ heartX = 0
    /\ heartY = 1
    /\ heart = NewHeart
    /\ goal = [x |-> 2, y |-> 0]
    /\ allRocks = <<[x |-> 0, y |-> 4]>>

\* the player idle at cell c after n moves, its last move being up
IdleAt(c, n, lives) ==
    [NewPlayer EXCEPT !.x = c[1] * U, !.y = c[2] * U, !.moveX = c[1], !.moveY = c[2],
                      !.moveDirection = "up", !.movements = n, !.lives = lives]

\* The scenes are reached with score 0.  The score only grows over a long
\* session (ten deliveries for the first 1000 points), and the only code
\* that reads it is checkLevel: a scene is also taken with the score pts
\* of a longer session, the player p having then the level and speed that
\* checkLevel gave it while the score rose to pts, and the logs of the
\* deliveries that made the score.  (The scene at that score was not
\* searched for from a constructed state.)
AtScore(p, pts) ==
    LET q == checkLevel(p, IF pts < 10000 THEN pts ELSE 9999)
        n == (pts + 99) \div 100
    IN  [q EXCEPT !.deliveries = n, !.movements = p.movements + 10 * n]

\* the scores at the two sides of each level's threshold
BandEdges == UNION { {n * 1000 - 50, n * 1000} : n \in 1..10 }

\* From Constructed(PlacementA, <<2, 2>>), frames of dt 3 1 3 1 3 3 3 3 with
\* four moves up: the player stands on cell (2, 1) of the top lane carrying
\* the box, below the goal, and enemy 1 comes up to it in that lane.  The
\* box has been run over r times on the way by the enemies 4 and 5, which
\* have respawned since (r = 1 and r = 2 by other frame lengths).
SceneCarry(r, pts) ==
    /\ Running
    /\ elapsed = 26
    /\ gameSeconds = 4
    /\ points = pts
    /\ player = AtScore(IdleAt(<<2, 1>>, 4, 3), pts)
    /\ box = [x |-> 2 * U, y |-> U, collected |-> TRUE, ranOver |-> r]
    /\ allEnemies = << enemy(8, 1, Null, 1, TRUE), enemy(-1, 1, Null, 1, FALSE),
                       enemy(-13, 1, Null, 1, FALSE), enemy(-15, 3, 3, 1, FALSE),
                       enemy(-21, 3, 4, 1, FALSE) >>
    /\ enemyQueueLanes = <<<<4, 6>>, <<>>, <<3, 4>>>>
    /\ boardLanes = <<<<2>>, <<4, 6>>, <<>>>>

\* From Constructed(PlacementB, <<3, 2>>), frames of dt 3 3 1 3 1 1 3 and the
\* player at home: the enemies 2 and 3, constructed on the same slot with
\* the same speed, come up to the box side by side; the enemies 4 and 5
\* have both run it over.
SceneConvoy2(pts) ==
    /\ Running
    /\ elapsed = 21
    /\ gameSeconds = 3
    /\ points = pts
    /\ player = AtScore(NewPlayer, pts)
    /\ box = [x |-> 3 * U, y |-> 2 * U, collected |-> FALSE, ranOver |-> 2]
    /\ allEnemies = << enemy(-27, 1, Null, 1, FALSE), enemy(12, 2, Null, 2, TRUE),
                       enemy(12, 2, Null, 2, TRUE), enemy(-19, 1, -4, 1, FALSE),
                       enemy(-26, 1, -5, 1, FALSE) >>
    /\ enemyQueueLanes = <<<<7, 4, 5>>, <<>>, <<>>>>
    /\ boardLanes = <<<<>>, <<2, 2, 6, 12>>, <<>>>>

\* As SceneConvoy2 with frames of dt 3 3 3 3 3: only enemy 5 has run over
\* the box.
SceneConvoy1(pts) ==
    /\ Running
    /\ elapsed = 21
    /\ gameSeconds = 3
    /\ points = pts
    /\ player = AtScore(NewPlayer, pts)
    /\ box = [x |-> 3 * U, y |-> 2 * U, collected |-> FALSE, ranOver |-> 1]
    /\ allEnemies = << enemy(-27, 1, Null, 1, FALSE), enemy(12, 2, Null, 2, TRUE),
                       enemy(12, 2, Null, 2, TRUE), enemy(-18, 1, 3, 1, FALSE),
                       enemy(-27, 1, -5, 1, FALSE) >>
    /\ enemyQueueLanes = <<<<4, 5, 3>>, <<3>>, <<>>>>
    /\ boardLanes = <<<<>>, <<6, 6, 6, 12>>, <<>>>>

\* From Constructed(PlacementH, <<4, 1>>), 17 frames in which the player has
\* been hit twice (by enemy 4 in lane 3, by enemy 2 in lane 2) and has walked
\* back into lane 3 on its last life; enemy 4, respawned, comes up to it.
SceneLastLife(pts) ==
    /\ Running
    /\ elapsed = 45
    /\ gameSeconds = 7
    /\ points = pts
    /\ player = AtScore(IdleAt(<<2, 3>>, 7, 1), pts)
    /\ box = [x |-> 4 * U, y |-> U, collected |-> FALSE, ranOver |-> 0]
    /\ allEnemies = << enemy(-3, 1, Null, 1, FALSE), enemy(-11, 3, -2, 1, FALSE),
                       enemy(-2, 1, Null, 1, FALSE), enemy(8, 3, 1, 1, TRUE),
                       enemy(0, 1, Null, 1, FALSE) >>
    /\ enemyQueueLanes = <<<<7, 7, 7>>, <<>>, <<1, 2>>>>
    /\ boardLanes = <<<<>>, <<4>>, <<>>>>

\* From Constructed(PlacementB, <<3, 2>>, 0), four frames of dt 3 with two
\* moves up: the player stands on cell (2, 3) with three lives, below lane
\* 2, where the enemies 2 and 3 come on side by side, one column before
\* the player's column.
SceneAbreast ==
    /\ Running
    /\ elapsed = 18
    /\ gameSeconds = 3
    /\ points = 0
    /\ player = IdleAt(<<2, 3>>, 2, 3)
    /\ box = [x |-> 3 * U, y |-> 2 * U, collected |-> FALSE, ranOver |-> 1]
    /\ allEnemies = << enemy(-30, 1, Null, 1, FALSE), enemy(6, 2, Null, 2, TRUE),
                       enemy(6, 2, Null, 2, TRUE), enemy(-3, 1, -1, 1, FALSE),
                       enemy(-12, 1, -2, 1, FALSE) >>
    /\ enemyQueueLanes = <<<<7, 1, 2>>, <<3>>, <<>>>>
    /\ boardLanes = <<<<>>, <<6, 6, 6, 12>>, <<>>>>

\* From Constructed(PlacementC, <<4, 3>>, 0), two frames of dt 3 and the
\* player at home: enemy 4, alone ahead in lane 2 at speed 4, is about to
\* leave the board and respawn; enemy 2 waits in lane 1, enemy 5 in lane 2.
SceneRespawn ==
    /\ Running
    /\ elapsed = 12
    /\ gameSeconds = 2
    /\ points = 0
    /\ player = NewPlayer
    /\ box = [x |-> 4 * U, y |-> 3 * U, collected |-> FALSE, ranOver |-> 0]
    /\ allEnemies = << enemy(-36, 3, Null, 1, FALSE), enemy(-18, 1, Null, 2, FALSE),
                       enemy(-33, 3, Null, 1, FALSE), enemy(18, 2, Null, 4, TRUE),
                       enemy(-18, 2, Null, 4, FALSE) >>
    /\ enemyQueueLanes = <<<<5>>, <<1>>, <<7, 7>>>>
    /\ boardLanes = <<<<>>, <<6>>, <<>>>>

\* From Constructed(<<<<1, 2>>, <<5, 3>>, <<5, 3>>, <<2, 1>>, <<2, 1>>>>,
\* <<0, 3>>, 0), nine frames of dt 3 and the player at home: enemies 4 and 5
\* have crossed lane 1 twice, their first two entries of the lane's queue
\* never removed (they appeared in column 2, beyond the end of the queue);
\* enemies 2 and 3, which have run over the box in lane 3, are about to
\* leave the board and respawn while the queue of lane 1 holds four slots.
SceneExhausted ==
    /\ Running
    /\ elapsed = 33
    /\ gameSeconds = 5
    /\ points = 0
    /\ player = NewPlayer
    /\ box = [x |-> 0, y |-> 3 * U, collected |-> FALSE, ranOver |-> 2]
    /\ allEnemies = << enemy(21, 2, Null, 1, TRUE),
                       [enemy(24, 3, Null, 2, TRUE) EXCEPT !.hitBox = TRUE],
                       [enemy(24, 3, Null, 2, TRUE) EXCEPT !.hitBox = TRUE],
                       enemy(-15, 1, 4, 1, FALSE), enemy(-3, 1, -1, 1, FALSE) >>
    /\ enemyQueueLanes = <<<<2, 1, 5, 4>>, <<>>, <<5>>>>
    /\ boardLanes = <<<<>>, <<3>>, <<6, 6>>>>

\* From Constructed(PlacementC, <<4, 3>>, 0), 59 frames of dt 3: the player
\* has waited at home and stepped up to cell (2, 4) in the end; the enemies
\* have all respawned into lane 1 at speed 2, two of them having run over
\* the box on their first crossing; the heart, rolled to cell (2, 3) in
\* second 27, is shown there since second 30 began.
SceneHeart ==
    /\ pc = "main"
    /\ ei = 1
    /\ dt = 0
    /\ frames = 0
    /\ start = TRUE
    /\ gameOver = FALSE
    /\ hit = FALSE
    /\ goalReached = FALSE
    /\ points = 0
    /\ boxesLost = 0
    /\ elapsed = 183
    /\ gameSeconds = 30
    /\ heartX = 2
    /\ heartY = 3
    /\ heart = [x |-> 2 * U, y |-> 3 * U, collected |-> FALSE, ranOver |-> 0]
    /\ goal = [x |-> 2, y |-> 0]
    /\ allRocks = <<[x |-> 0, y |-> 4]>>
    /\ player = IdleAt(<<2, 4>>, 1, 3)
    /\ box = [x |-> 4 * U, y |-> 3 * U, collected |-> FALSE, ranOver |-> 2]
    /\ allEnemies = << enemy(0, 1, 0, 2, FALSE), enemy(-6, 1, -1, 2, FALSE),
                       enemy(24, 1, 0, 2, TRUE), enemy(18, 1, 0, 2, TRUE),
                       enemy(12, 1, 0, 2, TRUE) >>
    /\ enemyQueueLanes = <<<<0, 1, 0>>, <<1>>, <<>>>>
    /\ boardLanes = <<<<6, 6>>, <<6, 6>>, <<3, 3>>>>

InitRunning ==
    \/ \E r \in 0..2 : SceneCarry(r, 0)
    \/ SceneConvoy1(0)
    \/ SceneConvoy2(0)
    \/ SceneLastLife(0)
    \/ SceneRespawn
    \/ SceneHeart
    \/ SceneExhausted
    \/ SceneAbreast

Init == InitConstructed \/ InitRunning

\* the scenes at the scores around the level thresholds
InitScore ==
    \/ Constructed(PlacementB, <<3, 2>>, 0)
    \/ SceneLastLife(1000)
    \/ SceneCarry(0, 950)
    \/ SceneCarry(2, 1000)
    \/ SceneConvoy1(1000)
    \/ \E pts \in BandEdges : SceneConvoy2(pts)

Next ==
    \/ StartPrompt
    \/ KeyUp
    \/ Main
    \/ PlayerUpdate
    \/ EnemyUpdate
    \/ BoxUpdate
    \/ GoalUpdate
    \/ HeartUpdate
    \/ UpdateTimer
    \/ Reset

Spec == Init /\ [][Next]_vars

SpecScore == InitScore /\ [][Next]_vars

\* Longer sessions from fewer states, for what happens over several frames.
InitLive ==
    \/ Constructed(PlacementH, <<4, 1>>, 0)
    \/ SceneLastLife(0)

\* the steps of a frame: window.requestAnimationFrame(main) keeps them coming
Tick ==
    \/ MainLive
    \/ PlayerUpdate
    \/ EnemyUpdate
    \/ BoxUpdate
    \/ GoalUpdate
    \/ HeartUpdate
    \/ UpdateTimer
    \/ Reset

NextLive == StartPrompt \/ KeyUp \/ Tick

SpecLive == InitLive /\ [][NextLive]_vars /\ WF_vars(Tick)

\* ------------------------------------------------------------ the claims
\* the box update of this step delivers the box
DeliveryStep == pc = "box" /\ player'.deliveries = player.deliveries + 1

\* C1: whenever the box update delivers the box, the score rises by exactly
\* 100, 50 or 25 for a damage counter of 0, 1 or 2 at that moment, and the
\* damage counter is 0 after the update.
C1_DeliveryPayout ==
    [][DeliveryStep =>
         /\ box'.ranOver = 0
         /\ (box.ranOver = 0 => points' = points + 100)
         /\ (box.ranOver = 1 => points' = points + 50)
         /\ (box.ranOver = 2 => points' = points + 25)]_vars

\* C1 witness: a box run over twice has just been delivered, for 25 points
C1_Witness ==
    /\ pc = "goal"
    /\ goalReached
    /\ player.deliveries = 1
    /\ points = 25
    /\ box.ranOver = 0

\* C2 (as claimed): the damage counter of the box is between 0 and 3 in
\* every reachable state, however many enemies run over it in a frame.
C2_DamageRange == box.ranOver \in 0..3

\* C3 (as claimed): when the enemies' hits have brought the damage counter
\* to 3, the box update of that frame destroys the box: the loss is logged,
\* 50 points are deducted, the box is put on a cell of the lanes with
\* damage 0 and no enemy keeps its hit-box flag.
C3_ThirdHitDestroys ==
    [][(pc = "box" /\ box.ranOver = 3) =>
         /\ boxesLost' = boxesLost + 1
         /\ points' = points - 50
         /\ box'.ranOver = 0
         /\ \E c \in BoxCells : box'.x = c[1] * U /\ box'.y = c[2] * U
         /\ \A i \in DOMAIN allEnemies : ~allEnemies'[i].hitBox]_vars

\* C4 (as claimed): no delivery happens with a damage counter of 3 or more,
\* so every delivery awards 100, 50 or 25 points.
C4_NoDeliveryAtThree ==
    [][DeliveryStep =>
         /\ box.ranOver < 3
         /\ points' - points \in {100, 50, 25}]_vars

\* the player update of this step handles a hit
HitStep == pc = "player" /\ hit

\* C5: when the player update runs with the hit flag set on the last life,
\* afterwards the player has 3 lives, stands on and targets the home cell
\* (2,5), the hit flag is false, the game is over and the box is on a cell
\* of column 0..4, row 1..3 with damage 0.
C5_LastLife ==
    [][(HitStep /\ player.lives = 1) =>
         /\ player'.lives = 3
         /\ player'.x = 2 * U /\ player'.y = 5 * U
         /\ player'.moveX = 2 /\ player'.moveY = 5
         /\ ~hit'
         /\ gameOver'
         /\ box'.ranOver = 0
         /\ \E c \in (0..4) \X (1..3) : box'.x = c[1] * U /\ box'.y = c[2] * U]_vars

\* C5 witness: the player update has just ended the game on the last life
C5_Witness ==
    /\ pc = "enemy" /\ ei = 1
    /\ gameOver
    /\ ~hit
    /\ player.lives = 3
    /\ player.x = 2 * U /\ player.y = 5 * U

\* C6: when the player update runs with the hit flag set and more than one
\* life, the lives drop by exactly 1, position and target are the same cell
\* of row 5, the hit flag is cleared and the game is not over.
C6_LoseLife ==
    [][(HitStep /\ player.lives > 1) =>
         /\ player'.lives = player.lives - 1
         /\ player'.x = player'.moveX * U
         /\ player'.y = 5 * U /\ player'.moveY = 5
         /\ player'.moveX \in 0..4
         /\ ~hit'
         /\ ~gameOver']_vars

\* C6 witness: the player has just lost the first of three lives
C6_Witness ==
    /\ pc = "enemy" /\ ei = 1
    /\ ~gameOver
    /\ ~hit
    /\ player.lives = 2
    /\ player.y = 5 * U /\ player.moveY = 5

\* the enemy e is in the player's row, strictly less than half a column away
InReach(e) ==
    /\ IsNum(e.x)
    /\ e.y * U = player.y
    /\ 2 * (e.x - player.x) < U
    /\ 2 * (player.x - e.x) < U

\* the enemy e is in the player's row, at most half a column away
InReachClosed(e) ==
    /\ IsNum(e.x)
    /\ e.y * U = player.y
    /\ 2 * (e.x - player.x) <= U
    /\ 2 * (player.x - e.x) <= U

\* C7 (amended): at the end of an enemy update the hit flag has been raised
\* by that enemy exactly when the enemy is in the player's row and its
\* column lies in the open interval (player.x - 0.5, player.x + 0.5).
C7_HitOpenInterval ==
    [][pc = "enemy" => (hit' <=> (hit \/ InReach(allEnemies'[ei])))]_vars

\* C7 (as claimed): the same with the closed interval
\* [player.x - 0.5, player.x + 0.5].
C7_HitClosedInterval ==
    [][pc = "enemy" => (hit' <=> (hit \/ InReachClosed(allEnemies'[ei])))]_vars

\* C7 witness: an enemy in reach of the player has raised the hit flag
C7_Witness ==
    /\ pc \in {"enemy", "box"}
    /\ hit
    /\ \E i \in DOMAIN allEnemies : InReach(allEnemies[i])

\* the level of the score s, for s below 10000
LevelOf(s) == IF s < 1000 THEN 1 ELSE (s \div 1000) + 1

\* C8: after every player update the level is the band of the score, for
\* every score below 10000: 1 below 1000 and n for (n-1)*1000 <= score <
\* n*1000; a lower score never gives a higher level.
C8_LevelOfScore ==
    [][(pc = "player" /\ points < 10000) =>
         /\ player'.level = LevelOf(points)
         /\ \A s \in BandEdges :
              s <= points => checkLevel(player, s).level <= player'.level]_vars

\* C8 witness: the delivery that brought the score to 1000 has been followed
\* by a player update, and the player is on level 2
C8_Witness ==
    /\ pc = "enemy" /\ ei = 1
    /\ frames = 2
    /\ points = 1000
    /\ player.deliveries = 11
    /\ player.level = 2

\* the speed of a level: 5 on level 1 and 4 + n on level n
SpeedOf(level) == IF level = 1 THEN 5 ELSE 4 + level

\* C9 (as claimed): after every player update the speed is that of the
\* level of the current score, whether the score rose or fell.
C9_SpeedOfScore ==
    [][(pc = "player" /\ points < 10000) =>
         player'.moveSpeed = SpeedOf(LevelOf(points))]_vars

\* the directions of the keys and the step of each
Dirs == {"left", "up", "right", "down"}

StepOf(d) ==
    CASE d = "left"  -> <<-1, 0>>
      [] d = "up"    -> <<0, -1>>
      [] d = "right" -> <<1, 0>>
      [] d = "down"  -> <<0, 1>>

\* the cell one step in direction d from the player's cell
Destination(d) == <<player.x \div U + StepOf(d)[1], player.y \div U + StepOf(d)[2]>>

\* C10: with the player not moving and the cell one step in direction d on
\* the board (columns 0..4, rows 0..5) and not the rock's, handleInput(d)
\* sets moveDirection to d and moving to true and puts the target on that
\* cell, leaving the player's position unchanged.
C10_AcceptedMove ==
    pc = "main" =>
      \A d \in Dirs :
        (/\ ~player.moving
         /\ Destination(d)[1] \in 0..4
         /\ Destination(d)[2] \in 0..5
         /\ \A i \in DOMAIN allRocks :
              <<allRocks[i].x, allRocks[i].y>> # Destination(d))
        => LET q == handleInput(player, d)
           IN  /\ q.moveDirection = d
               /\ q.moving
               /\ <<q.moveX, q.moveY>> = Destination(d)
               /\ q.x = player.x /\ q.y = player.y

\* C10 witness: the key "up" has just been accepted from a standing player
C10_Witness ==
    /\ pc = "main"
    /\ frames = 0
    /\ player.moving
    /\ player.moveDirection = "up"
    /\ player.moveX * U = player.x
    /\ player.moveY * U = player.y - U

\* the key k is rejected: it is unmapped, or the player is moving, or the
\* cell one step in its direction is off the board or holds a rock
Rejected(k) ==
    \/ k \notin Dirs
    \/ player.moving
    \/ Destination(k)[1] \notin 0..4
    \/ Destination(k)[2] \notin 0..5
    \/ \E i \in DOMAIN allRocks : <<allRocks[i].x, allRocks[i].y>> = Destination(k)

\* C11: handleInput is a no-op when the move is rejected (rock on the
\* destination, destination off the board, player already moving, or key
\* unmapped): position, target, direction, moving flag and move log are
\* unchanged.
C11_RejectedMove ==
    pc = "main" =>
      \A k \in Keys :
        Rejected(k) =>
          LET q == handleInput(player, k)
          IN  /\ q.x = player.x /\ q.y = player.y
              /\ q.moveX = player.moveX /\ q.moveY = player.moveY
              /\ q.moveDirection = player.moveDirection
              /\ q.moving = player.moving
              /\ q.movements = player.movements

\* C11 witness: the player stands at home below the rock, so that "up" is
\* rejected for the rock and "down" for the edge of the board, and it has
\* not moved though frames have passed
C11_Witness ==
    /\ pc = "main"
    /\ frames = MaxFrames
    /\ start
    /\ ~player.moving
    /\ player.movements = 0
    /\ player.x = 2 * U /\ player.y = 5 * U
    /\ \E i \in DOMAIN allRocks : allRocks[i].x = 2 /\ allRocks[i].y = 4

\* C12: whenever the player's moving flag is false, its position is
\* integer-valued in both axes and equals its target cell (moveX, moveY).
C12_IdleOnTarget ==
    ~player.moving =>
      /\ player.x % U = 0 /\ player.y % U = 0
      /\ player.x = player.moveX * U
      /\ player.y = player.moveY * U

\* C12 witness: the player has completed its first move, up from home
C12_Witness ==
    /\ ~player.moving
    /\ player.movements = 1
    /\ player.moveDirection = "up"
    /\ player.x = 2 * U /\ player.y = 4 * U

\* C13: every accepted move completes.  In a started game with frames to
\* come (a move takes at most two frames to arrive, one to be hit and one
\* to settle), a moving player eventually is not moving; the target of a
\* moving player changes only when a hit is handled, and the update that
\* clears the moving flag without a hit leaves the player exactly on its
\* target cell.
C13_MoveCompletes ==
    /\ (start /\ player.moving /\ frames + 4 <= LiveFrames) ~> ~player.moving
    /\ [][(player.moving /\ player'.moving /\ ~(pc = "player" /\ hit)) =>
            (player'.moveX = player.moveX /\ player'.moveY = player.moveY)]_vars
    /\ [][(pc = "player" /\ ~hit /\ player.moving /\ ~player'.moving) =>
            /\ player'.x = player.moveX * U
            /\ player'.y = player.moveY * U]_vars

\* C13 witness: a move up from home, accepted before the first frame, has
\* completed in the third frame
C13_Witness ==
    /\ pc = "enemy" /\ ei = 1
    /\ frames = 3
    /\ ~player.moving
    /\ player.movements = 1
    /\ player.moveDirection = "up"
    /\ player.y = 4 * U /\ player.moveY = 4

\* C14: from the frame an enemy becomes visible until the frame it
\* respawns, its column never decreases from one frame to the next, and
\* grows strictly in each of its updates with dt > 0.
C14_VisibleAdvances ==
    [][/\ \A i \in DOMAIN allEnemies :
            (allEnemies[i].visable /\ allEnemies'[i].visable) =>
              allEnemies'[i].x >= allEnemies[i].x
       /\ (pc = "enemy" /\ allEnemies'[ei].visable) =>
            /\ IsNum(allEnemies'[ei].x)
            /\ allEnemies'[ei].x >= allEnemies[ei].x
            /\ (dt > 0 => allEnemies'[ei].x > allEnemies[ei].x)]_vars

\* C14 witness: an enemy that waited off the board when the game started
\* is on the board, past its first column, after two frames
C14_Witness ==
    /\ pc = "box"
    /\ frames = 2
    /\ player.movements = 0
    /\ elapsed < 2 * U
    /\ \E i \in DOMAIN allEnemies :
         allEnemies[i].visable /\ allEnemies[i].x > U

\* the enemy update of this step respawns the enemy
RespawnStep == pc = "enemy" /\ allEnemies[ei].visable /\ ~allEnemies'[ei].visable

\* C15 (as claimed): a respawning enemy's new column is one of -1..-5 and
\* differs from the column of every other invisible enemy of its new lane.
C15_RespawnSlot ==
    [][RespawnStep =>
         LET e == allEnemies'[ei]
         IN  /\ e.x \in { (0 - k) * U : k \in 1..5 }
             /\ \A j \in DOMAIN allEnemies \ {ei} :
                  (~allEnemies'[j].visable /\ allEnemies'[j].y = e.y) =>
                    allEnemies'[j].x # e.x]_vars

BoxResetStep ==
    \/ DeliveryStep
    \/ pc = "box" /\ boxesLost' = boxesLost + 1
    \/ pc = "player" /\ ~gameOver /\ gameOver'
    \/ pc = "reset"

\* C17 (as claimed): immediately after the box is reset to damage 0 at a
\* new cell, every enemy's hit-box flag is false.
C17_NoFlagAcrossReset ==
    [][BoxResetStep => \A i \in DOMAIN allEnemies : ~allEnemies'[i].hitBox]_vars

\* the positions of a frame in which an entity is updated
UpdatePhases == {"player", "enemy", "box", "goal", "heart"}

\* what the updates work on, but for the player
Entities ==
    <<allEnemies, box, goal, heart, allRocks, hit, goalReached, points,
      boxesLost, heartX, heartY, enemyQueueLanes, boardLanes>>

C20_HeartBonus ==
    [][(pc = "heart" /\ player.x = heart.x /\ player.y = heart.y) =>
         /\ player'.lives = player.lives + 1
         /\ points' = points + 50
         /\ player' = [player EXCEPT !.lives = player.lives + 1]
         /\ box' = box]_vars

\* C20 witness: the player has stepped onto the heart shown in lane 3 and
\* the heart update has granted the life and the points
C20_Witness ==
    /\ pc = "timer"
    /\ player.lives = 4
    /\ points = 50
    /\ player.x = 2 * U /\ player.y = 3 * U
    /\ player.movements = 2

\* the heart update of this step collects the heart
CollectStep == pc = "heart" /\ player.x = heart.x /\ player.y = heart.y

\* C21 (as claimed): after the heart is collected it is off the board at
\* the end of that update, so that one appearance window grants one life
\* and one 50-point award at most.
C21_HiddenOnceCollected ==
    [][CollectStep => (heart'.x = OffCanvas * U /\ heart'.y = OffCanvas * U)]_vars

\* C22 (as claimed): a respawn never gives an enemy an undefined or NaN
\* column; getRandomIntExcludeMultiple reports an exhausted candidate
\* space instead of returning a value.
C22_NoNaNColumn ==
    \A i \in DOMAIN allEnemies : allEnemies[i].x # NaN /\ allEnemies[i].x # Undefined

\* C23 (as claimed): a game-over reset that the user declines leaves the
\* game over and leaves the score, the lost-box log, the player and the
\* box as they were when the game ended.
C23_DeclinedResetKeeps ==
    [][(pc = "reset" /\ gameOver') =>
         /\ points' = points
         /\ boxesLost' = boxesLost
         /\ player' = player
         /\ box' = box]_vars

\* C24 (as claimed): at the end of a box update that runs with the hit flag
\* set and the box collected, the box is not collected and lies on a cell
\* of column 0..4, row 1..3.
C24_HitDropsBox ==
    [][(pc = "box" /\ hit /\ box.collected) =>
         /\ ~box'.collected
         /\ \E c \in (0..4) \X (1..3) : box'.x = c[1] * U /\ box'.y = c[2] * U]_vars

\* C25 (as claimed): when the entities of a frame have been updated and the
\* box is collected, the box is at the player's position.
C25_CarriedAtPlayer ==
    (pc = "timer" /\ box.collected) => (box.x = player.x /\ box.y = player.y)

\* the enemy e is in the box's row, less than half a column from the box b
Overlaps(e, b) ==
    /\ e.y * U = b.y
    /\ e.x # NaN
    /\ 2 * e.x > 2 * b.x - U
    /\ 2 * e.x < 2 * b.x + U

\* C26: the box's damage grows only in an enemy's update, by one, when the
\* enemy's flag is clear and the enemy is in the box's row less than half a
\* column from it, and the update sets the flag; a set flag is cleared only
\* by the enemy's own respawn or by the destruction of the box.  So an
\* enemy counts once between two clearings of its flag.
C26_OneHitPerFlag ==
    [][/\ (box'.ranOver > box.ranOver) =>
            /\ pc = "enemy"
            /\ box'.ranOver = box.ranOver + 1
            /\ ~allEnemies[ei].hitBox
            /\ allEnemies'[ei].hitBox
            /\ Overlaps(allEnemies'[ei], box)
       /\ \A i \in DOMAIN allEnemies :
            (allEnemies[i].hitBox /\ ~allEnemies'[i].hitBox) =>
              \/ RespawnStep /\ i = ei
              \/ pc = "box" /\ boxesLost' = boxesLost + 1]_vars

\* C26 witness: an enemy that has counted once overlaps the untouched box a
\* second frame in a row, the damage still being 1
C26_Witness ==
    /\ pc = "box"
    /\ frames = 2
    /\ box.ranOver = 1
    /\ boxesLost = 0
    /\ \E i \in DOMAIN allEnemies :
         /\ allEnemies[i].hitBox
         /\ Overlaps(allEnemies[i], box)
         /\ Overlaps([allEnemies[i] EXCEPT !.x = @ - dt * allEnemies[i].speed], box)

\* C27 (as claimed): enemies never overtake.  When an enemy is updated,
\* an enemy of its row that comes later in the list is still on its column
\* of the beginning of the frame and will advance by dt times its speed;
\* of the two, the one that was behind is not ahead after the frame, unless
\* one of them leaves the board in it.
C27_NoOvertake ==
    [][(pc = "enemy" /\ ~RespawnStep) =>
         \A j \in (ei + 1) .. NumEnemies :
           LET E  == allEnemies[ei]
               E2 == allEnemies'[ei]
               O  == allEnemies[j]
               O2 == Advance(O, dt)
           IN  (E.y = O.y /\ E.x # NaN /\ O.x # NaN /\ ~Leaves(O2)) =>
                 /\ (E.x < O.x) => (E2.x <= O2.x)
                 /\ (O.x < E.x) => (O2.x <= E2.x)]_vars

\* C28 (as claimed): an enemy's update that is not a respawn changes its
\* speed only to the speed of a slower enemy of its row that is ahead of
\* it by one column at most.
C28_MatchesNearAhead ==
    [][(pc = "enemy" /\ ~RespawnStep /\ allEnemies'[ei].speed # allEnemies[ei].speed) =>
         \E j \in DOMAIN allEnemies \ {ei} :
           /\ allEnemies[j].y = allEnemies[ei].y
           /\ allEnemies[j].speed < allEnemies[ei].speed
           /\ allEnemies[j].speed = allEnemies'[ei].speed
           /\ allEnemies[j].x # NaN
           /\ allEnemies[j].x >= allEnemies'[ei].x
           /\ allEnemies[j].x - allEnemies'[ei].x <= U]_vars

\* the enemy e is on the board: its column is between 0 and 5
OnBoard(e) == e.x # NaN /\ e.x > 0 /\ e.x < 5 * U

\* C29 (as claimed): at the end of an enemy's update the enemy is visible
\* exactly when its column is greater than 0 and less than 5, and an enemy
\* that has become invisible has a negative column, a row of 1..3, a speed
\* of 1..3 and a clear hit-box flag.
C29_VisibleOnBoard ==
    [][pc = "enemy" =>
         LET e == allEnemies'[ei]
         IN  /\ e.visable <=> OnBoard(e)
             /\ RespawnStep =>
                  /\ e.x # NaN /\ e.x < 0
                  /\ e.y \in 1..3 /\ e.speed \in 1..3
                  /\ ~e.hitBox]_vars

\* the coordinate going from a to b does not pass the target t and does not
\* get farther from it
Toward(a, b, t) ==
    /\ (a >= t) => (b >= t /\ b <= a)
    /\ (a <= t) => (b <= t /\ b >= a)

\* C30: an update of a moving player with no hit pending moves the player
\* along the axis of its move only, toward the target cell: the coordinate
\* of the axis does not pass the target and does not get farther from it,
\* and the other coordinate is unchanged.
C30_MovesTowardTarget ==
    [][(pc = "player" /\ player.moving /\ ~hit) =>
         IF player.moveDirection \in {"left", "right"}
           THEN /\ Toward(player.x, player'.x, player.moveX * U)
                /\ player'.y = player.y
           ELSE /\ player.moveDirection \in {"up", "down"}
                /\ Toward(player.y, player'.y, player.moveY * U)
                /\ player'.x = player.x]_vars

\* C30 witness: the player, moving up from home, has made a step of one
\* short frame and is between the two cells
C30_Witness ==
    /\ pc = "enemy"
    /\ player.moving
    /\ player.moveDirection = "up"
    /\ player.moveY = 4
    /\ player.x = 2 * U
    /\ player.y = 5 * U - 5
    /\ dt = 1

\* C31: in every reachable state the player's target cell and position are
\* on the board: 0 <= moveX <= 4, 0 <= moveY <= 5, 0 <= x <= 4, 0 <= y <= 5.
C31_PlayerOnBoard ==
    /\ player.moveX \in 0..4
    /\ player.moveY \in 0..5
    /\ player.x >= 0 /\ player.x <= 4 * U
    /\ player.y >= 0 /\ player.y <= 5 * U

\* C31 witness: the player has moved from home to the left edge of the
\* bottom row and is idle there, where the keys left and down are refused
C31_Witness ==
    /\ pc = "main"
    /\ ~player.moving
    /\ player.lives = 3
    /\ player.moveX = 0 /\ player.x = 0
    /\ player.moveY = 5 /\ player.y = 5 * U

\* the heart h is off the canvas
OffBoard(h) == h.x = OffCanvas * U /\ h.y = OffCanvas * U

\* C32: the heart follows the seconds counter.  After a heart update in a
\* second that is a multiple of 9 (of 30 too or not) the heart is off the
\* canvas and a new cell (column 0..4, row 1..3) has been rolled; after one
\* in a second that is a multiple of 30 and not of 9 the heart is on the
\* rolled cell unless it was collected by that update, and the rolled cell
\* is kept; after any other one the heart is where it was, or off the
\* canvas if it was collected.  No other step moves the heart.
C32_HeartFollowsSeconds ==
    [][IF pc # "heart" THEN heart' = heart
       ELSE IF gameSeconds # NaN /\ gameSeconds % 9 = 0
         THEN /\ OffBoard(heart')
              /\ heartX' \in 0..4 /\ heartY' \in 1..3
       ELSE IF gameSeconds # NaN /\ gameSeconds % 30 = 0
         THEN /\ ~CollectStep => (heart'.x = heartX * U /\ heart'.y = heartY * U)
              /\ heartX' = heartX /\ heartY' = heartY
       ELSE /\ IF CollectStep THEN OffBoard(heart') ELSE heart' = heart
            /\ heartX' = heartX /\ heartY' = heartY]_vars

\* C32 witness: after the heart update of a frame in second 30, in which
\* the heart was not collected, the heart is on the rolled cell
C32_Witness ==
    /\ pc = "timer"
    /\ gameSeconds = 30
    /\ heartX \in 0..4 /\ heartY \in 1..3
    /\ heart.x = heartX * U /\ heart.y = heartY * U
    /\ player.lives = 3

\* the enemies that are less than half a column from cell c
Around(c) ==
    { i \in DOMAIN allEnemies :
        /\ allEnemies[i].y = c[2]
        /\ allEnemies[i].x # NaN
        /\ 2 * allEnemies[i].x > 2 * c[1] * U - U
        /\ 2 * allEnemies[i].x < 2 * c[1] * U + U }

\* C33: the player has at least one life in every reachable state.  The
\* lives go down only in a player update that handles a hit with more than
\* one life, and then by one, however many enemies raised the flag (and
\* when the player is replaced by a new one after the game is over); a hit
\* on the last life gives 3 lives.
C33_AtLeastOneLife ==
    /\ [](player.lives >= 1)
    /\ [][/\ HitStep => player'.lives = (IF player.lives > 1 THEN player.lives - 1 ELSE 3)
          /\ (player'.lives < player.lives) =>
               \/ HitStep /\ player.lives > 1
               \/ pc = "reset" /\ player' = NewPlayer]_vars

\* C33 witness: a hit raised in a frame in which two enemies were on the
\* player's cell has taken one of the three lives
C33_Witness ==
    /\ pc = "enemy" /\ ei = 1
    /\ frames = 2
    /\ player.lives = 2
    /\ player.y = 5 * U
    /\ ~hit
    /\ \E c \in (0..4) \X (1..3) : Cardinality(Around(c)) >= 2

\* the box update of this step destroys a box that the player carries
DestroyCarriedStep ==
    /\ pc = "box"
    /\ box.collected /\ ~hit
    /\ box.ranOver = 3
    /\ boxesLost' = boxesLost + 1

\* C34 (as claimed): a box destroyed while the player carries it ends that
\* update uncollected on a cell of column 0..4, row 1..3.
C34_DestroyedIsDropped ==
    [][DestroyCarriedStep =>
         /\ ~box'.collected
         /\ \E c \in (0..4) \X (1..3) : box'.x = c[1] * U /\ box'.y = c[2] * U]_vars

\* C35 (as claimed): every respawn finds a free slot among the columns
\* -1..-5 of the enemy's new lane (a number of 1..5 that is not in the
\* lane's queue), and the respawned enemy stands on one.
C35_RespawnFindsSlot ==
    [][RespawnStep =>
         /\ \E k \in 1..5 : k \notin Range(enemyQueueLanes[allEnemies'[ei].y])
         /\ \E k \in 1..5 : allEnemies'[ei].x = (0 - k) * U]_vars

\* C36: in every reachable state the player's target cell and the player's
\* position differ from the cell of every rock.
C36_NeverOnRock ==
    \A i \in DOMAIN allRocks :
      /\ ~(player.moveX = allRocks[i].x /\ player.moveY = allRocks[i].y)
      /\ ~(player.x = allRocks[i].x * U /\ player.y = allRocks[i].y * U)

\* C36 witness: the first delivery has just moved the rock into the column
\* of the player, who stands on the goal
C36_Witness ==
    /\ pc = "goal"
    /\ goalReached
    /\ player.deliveries = 1
    /\ player.x = 2 * U /\ player.y = 0
    /\ allRocks[1].x = 2 /\ allRocks[1].y = 4

\* C37: outside a respawn an enemy's speed never goes up.  A speed changes
\* only in the enemy's own update; when that update is not a respawn, the
\* new speed is lower than the old one, at least 1, and is the speed of an
\* enemy of the same row.
C37_SpeedOnlyDrops ==
    [][\A i \in DOMAIN allEnemies :
         (allEnemies'[i].speed # allEnemies[i].speed) =>
           /\ pc = "enemy" /\ i = ei
           /\ \/ RespawnStep
              \/ /\ allEnemies'[i].speed < allEnemies[i].speed
                 /\ allEnemies'[i].speed >= 1
                 /\ \E j \in DOMAIN allEnemies \ {i} :
                      /\ allEnemies[j].y = allEnemies[i].y
                      /\ allEnemies[j].speed = allEnemies'[i].speed]_vars

\* C37 witness: enemy 4, constructed with speed 4 and not respawned since,
\* has adopted the speed of a slower enemy of its row
C37_Witness ==
    /\ pc = "enemy"
    /\ frames >= 1
    /\ allEnemies[4].prevX = Null
    /\ allEnemies[4].speed < 4
    /\ \E j \in DOMAIN allEnemies \ {4} :
         allEnemies[j].y = allEnemies[4].y /\ allEnemies[j].speed = allEnemies[4].speed

\* the enemies of row r that are off the board (v false) or on it (v true)
InRow(r, v) == { i \in DOMAIN allEnemies : allEnemies[i].y = r /\ allEnemies[i].visable = v }

\* the slot the enemy keeps in prevX, once it has one
RecordedSlot(e) == IF e.prevX < 0 THEN 0 - e.prevX ELSE e.prevX

\* C38 (as claimed): the bookkeeping follows the enemies.  In every state
\* the off-board queue of a row has one entry per invisible enemy of that
\* row, among them the recorded slot of each such enemy that has one, and
\* the on-board list of a row has one entry per visible enemy of that row.
C38_LanesFollowEnemies ==
    \A r \in 1..3 :
      /\ Len(enemyQueueLanes[r]) = Cardinality(InRow(r, FALSE))
      /\ \A i \in InRow(r, FALSE) :
           allEnemies[i].prevX # Null =>
             RecordedSlot(allEnemies[i]) \in Range(enemyQueueLanes[r])
      /\ Len(boardLanes[r]) = Cardinality(InRow(r, TRUE))

====
